---- MODULE Spec2Model ----
(***************************************************************************)
(* A model of src/app.py: the relay's two process-wide mappings (FIRMS,    *)
(* ACCESS_CACHE), the token refresher refresh_access_token and the three   *)
(* Flask handlers firms_connect, clients_search and clients_resolve.       *)
(*                                                                         *)
(* Requests are served by threads.  A handler runs without interruption    *)
(* between two blocking network calls, so one action is the code between   *)
(* two such calls: a request that needs a refresh is three actions (up to  *)
(* requests.post, from its answer up to requests.get, from that answer to  *)
(* the reply); other requests interleave in between.                       *)
(*                                                                         *)
(* firms_connect binds its key to a new dict each time, and a request in   *)
(* flight keeps the dict it looked up.  Each dict carries the number of    *)
(* the connect that made it (id), which stands for its identity: a write   *)
(* through a reference whose id is no longer the one in FIRMS lands on a   *)
(* dict that nothing reads again.                                          *)
(*                                                                         *)
(* Strings that are only compared are TLA+ strings; strings the code       *)
(* strips (query, Name, EmailAddress) are sequences of characters.         *)
(***************************************************************************)
EXTENDS Integers, Sequences, FiniteSets, TLC

VARIABLES FIRMS,         \* firm_id -> NoFirm or the Firm dict [tenant_id, refresh_token]
          connects,      \* how many Firm dicts firms_connect has created
          ACCESS_CACHE,  \* firm_id -> NoEntry or [access_token, expires_at]
          now,           \* int(time.time())
          issued,        \* how many token pairs the identity provider has issued
          thr,           \* per serving thread: the request in flight and its locals
          out,           \* the reply on its way to the caller, with the request it answers
          track          \* history: per firm, the refresh_token the process took last
                         \* from a connect or from a refresh (known), and the one of a
                         \* connect that no search or resolve has followed yet (pending)

vars == <<FIRMS, connects, ACCESS_CACHE, now, issued, thr, out, track>>

----------------------------------------------------------------------------
(* Bounds of the model *)

MaxTime == 40        \* the clock stops here
MaxEvents == 3       \* successful connects plus grants the identity provider honours
MaxContacts == 2     \* contacts in one upstream answer

(* Constants of the program *)

SAFETY_MARGIN == 60
DEFAULT_EXPIRES_IN == 1800
TIMEOUT == 30
DEFAULT_LIMIT == 5

Threads == {1, 2}
TickSteps == {20}

----------------------------------------------------------------------------
(* Python values *)

None == "<None>"
QNone == <<None>>                  \* None where a character sequence may stand
NoEntry == [access_token |-> None, expires_at |-> 0]   \* dict.get -> None
NoFirm == [tenant_id |-> None, refresh_token |-> None, id |-> 0]

\* `not v` for None and str
Falsy(v) == v = None \/ v = ""
\* `v or default` for a character sequence
SeqOr(v, default) == IF v = QNone \/ v = <<>> THEN default ELSE v

WHITESPACE == {" ", "\t", "\n"}

RECURSIVE LStrip(_, _)
LStrip(s, chars) ==
    IF s # <<>> /\ Head(s) \in chars THEN LStrip(Tail(s), chars) ELSE s

RECURSIVE RStrip(_, _)
RStrip(s, chars) ==
    IF s # <<>> /\ s[Len(s)] \in chars
    THEN RStrip(SubSeq(s, 1, Len(s) - 1), chars) ELSE s

\* str.strip([chars])
Strip(s, chars) == RStrip(LStrip(s, chars), chars)

\* list[:n]
Slice(s, n) ==
    IF n >= 0 THEN SubSeq(s, 1, IF n < Len(s) THEN n ELSE Len(s))
    ELSE SubSeq(s, 1, IF Len(s) + n > 0 THEN Len(s) + n ELSE 0)

\* dict.get(key) on a dict modelled as a function whose domain is its keys
Get(d, k) == IF k \in DOMAIN d THEN d[k] ELSE None
\* the same where the value is a character sequence
GetQ(d, k) == IF k \in DOMAIN d THEN d[k] ELSE QNone

----------------------------------------------------------------------------
(* State *)

FirmIds == {"f1", "F1"}

\* a serving thread with no request
\* (a local is kept while the code still reads it; grant, the refresh_token
\* the request has posted, is kept until the request ends)
Idle == [pc |-> "idle", endpoint |-> None, firm_id |-> None, firm |-> NoFirm.id,
         tenant_id |-> None, now0 |-> 0, query |-> <<>>, limit |-> 0,
         client_id |-> None, grant |-> None, access_token |-> None,
         idp_calls |-> 0, api_calls |-> 0]

NoPayload == [firm_id |-> None, tenant_id |-> None, refresh_token |-> None,
              query |-> QNone, limit |-> [kind |-> "absent", val |-> 0],
              client_id |-> None]

\* the program's mappings, as a handler finds them
Stores == [FIRMS |-> FIRMS, ACCESS_CACHE |-> ACCESS_CACHE]

NoReply == [endpoint |-> None]

\* return jsonify(body), status: the reply of thread t to `payload`.  With it
\* go what the request did: the exception that ended it (exc), the upstream
\* answer it got last (upstream), its upstream calls, and the mappings as they
\* were before the step that replied (pre).
Reply(t, endpoint, payload, status, body, exc, upstream, calls) ==
    [t |-> t, endpoint |-> endpoint, payload |-> payload,
     status |-> status, body |-> body, exc |-> exc, upstream |-> upstream,
     idp_calls |-> calls[1], api_calls |-> calls[2], pre |-> Stores]

NoUpstream == [from |-> None, status_code |-> 0, text |-> ""]
\* the answer resp of the identity provider ("idp") or the accounting API ("api")
From(src, resp) == [from |-> src, status_code |-> resp.status_code, text |-> resp.text]

NoTrack == [known |-> None, pending |-> None]
\* history: the process reads refresh_token v for firm_id (lines 77, 108)
Learn(tr, firm_id, v) ==
    IF firm_id \in DOMAIN tr THEN [tr EXCEPT ![firm_id].known = v] ELSE tr
\* history: a request for firm_id enters the refresher
Followed(tr, firm_id) ==
    IF firm_id \in DOMAIN tr THEN [tr EXCEPT ![firm_id].pending = None] ELSE tr

\* an exception no handler catches: Flask answers 500 with its own page
InternalServerError == [html |-> "Internal Server Error"]

Init ==
    /\ FIRMS = [f \in FirmIds |-> NoFirm]
    /\ connects = 0
    /\ ACCESS_CACHE = [f \in FirmIds |-> NoEntry]
    /\ now = 0
    /\ issued = 0
    /\ thr = [t \in Threads |-> Idle]
    /\ out = NoReply
    /\ track = [f \in FirmIds |-> NoTrack]

\* d[k] = v
DictSet(d, k, v) == [x \in DOMAIN d \cup {k} |-> IF x = k THEN v ELSE d[x]]

\* a lookup that folds the case of the key
FirmOf_Folded(firm_id) ==
    LET k == IF firm_id = "F1" THEN "f1" ELSE firm_id
    IN IF k \in DOMAIN FIRMS THEN FIRMS[k] ELSE NoFirm

\* FIRMS.get(firm_id): the Firm dict, or None
FirmOf(firm_id) ==
    IF firm_id \in DOMAIN FIRMS THEN FIRMS[firm_id] ELSE NoFirm

\* ACCESS_CACHE.get(firm_id)
CacheGet(firm_id) ==
    IF firm_id \in DOMAIN ACCESS_CACHE THEN ACCESS_CACHE[firm_id] ELSE NoEntry

\* a check that lets every firm_id pass
NotConnected_Never(firm) == FALSE

\* lines 50, 133 and 181: `not firm`
NotConnected(firm) == firm = NoFirm

\* Worker threads are interchangeable: a new request is taken by the idle
\* thread of least number
Free(t) ==
    /\ thr[t].pc = "idle"
    /\ \A u \in Threads : thr[u].pc = "idle" => t <= u

\* No request is in flight.  A request that is answered at once and changes
\* nothing (a rejected payload, an unknown firm, the health check) reads none
\* of what a request in flight writes, so its step commutes with theirs: the
\* model takes it only here.
Quiet == \A t \in Threads : thr[t].pc = "idle"

----------------------------------------------------------------------------
(* firms_connect *)

\* the connects callers make: firm "f1" with either of two credentials, firm
\* "F1" (another key: keys are compared exactly) with its own
ValidConnects ==
    {[NoPayload EXCEPT !.firm_id = "f1", !.tenant_id = "t1", !.refresh_token = "r1"],
     [NoPayload EXCEPT !.firm_id = "f1", !.tenant_id = "t2", !.refresh_token = "r2"],
     [NoPayload EXCEPT !.firm_id = "F1", !.tenant_id = "t3", !.refresh_token = "r3"]}

\* a key that is missing (None) or empty
Missing == {None, ""}

ConnectPayloads ==
    ValidConnects
    \cup {[NoPayload EXCEPT !.firm_id = f, !.tenant_id = "t1", !.refresh_token = "r1"] :
             f \in Missing}
    \cup {[NoPayload EXCEPT !.firm_id = "f1", !.tenant_id = tn, !.refresh_token = "r1"] :
             tn \in Missing}
    \cup {[NoPayload EXCEPT !.firm_id = "f1", !.tenant_id = "t1", !.refresh_token = r] :
             r \in Missing}
    \cup {NoPayload}

\* line 100
ConnectInvalid(p) == Falsy(p.firm_id) \/ Falsy(p.tenant_id) \/ Falsy(p.refresh_token)

\* lines 106-109: a new dict
NewFirm(p) ==
    [tenant_id |-> p.tenant_id, refresh_token |-> p.refresh_token, id |-> connects + 1]

\* a connect that clears the whole cache
CachePop_All(cache, firm_id) == [x \in DOMAIN cache \cup {firm_id} |-> NoEntry]

\* line 111: ACCESS_CACHE.pop(firm_id, None)
CachePop(cache, firm_id) == DictSet(cache, firm_id, NoEntry)

firms_connect(p) ==
    IF ConnectInvalid(p)
    THEN /\ Quiet
         /\ out' = Reply(0, "connect", p, 400,
                         [ok |-> FALSE, error |-> "firm_id, tenant_id, refresh_token required"],
                         None, NoUpstream, <<0, 0>>)
         /\ UNCHANGED <<FIRMS, connects, ACCESS_CACHE, now, issued, thr, track>>
    ELSE /\ connects + issued < MaxEvents
         /\ connects' = connects + 1
         /\ FIRMS' = DictSet(FIRMS, p.firm_id, NewFirm(p))
         /\ ACCESS_CACHE' = CachePop(ACCESS_CACHE, p.firm_id)
         /\ out' = Reply(0, "connect", p, 200,
                         [ok |-> TRUE, firm_id |-> p.firm_id], None, NoUpstream, <<0, 0>>)
         /\ track' = DictSet(track, p.firm_id,
                             [known |-> p.refresh_token, pending |-> p.refresh_token])
         /\ UNCHANGED <<now, issued, thr>>

Connect == out = NoReply /\ \E p \in ConnectPayloads : firms_connect(p)

----------------------------------------------------------------------------
(* refresh_access_token *)

\* thread t is blocked in requests.post or requests.get
Waiting(t) == thr[t].pc \in {"idp", "api"}

\* a cache that keeps no margin
CacheFresh_NoMargin(cached, t0) ==
    cached # NoEntry /\ cached.expires_at > t0

\* line 46: the cached token is reused
CacheFresh(cached, t0) ==
    cached # NoEntry /\ cached.expires_at > t0 + SAFETY_MARGIN

\* lines 59-62: the refresh_token the grant carries
GrantToken(firm) == firm.refresh_token

\* line 73
ExpiresAt(t0, data) ==
    t0 + (IF data.expires_in = <<>> THEN DEFAULT_EXPIRES_IN ELSE data.expires_in[1])

\* lines 71-74
CacheEntry(t0, data) ==
    [access_token |-> data.access_token, expires_at |-> ExpiresAt(t0, data)]

\* a rotation that keeps a token an earlier response has rotated in
Rotate_FirstWins(firms, firm_id, id, data) ==
    IF /\ firm_id \in DOMAIN firms
       /\ firms[firm_id].id = id
       /\ firms[firm_id].refresh_token \in {"r1", "r2", "r3"}
    THEN [firms EXCEPT ![firm_id].refresh_token = data.refresh_token]
    ELSE firms

\* line 77: firm["refresh_token"] = data["refresh_token"], on the dict the
\* refresher looked up, whether or not FIRMS still holds it
Rotate(firms, firm_id, id, data) ==
    IF firm_id \in DOMAIN firms /\ firms[firm_id].id = id
    THEN [firms EXCEPT ![firm_id].refresh_token = data.refresh_token]
    ELSE firms

\* a failure that drops the provider's body
RefreshFailed_NoBody(resp) == "Token refresh failed"

\* line 67
RefreshFailed(resp) == "Token refresh failed: " \o resp.text

\* what the identity provider may answer to the n-th grant it honours:
\* expires_in is an optional key (<<>>: absent); a token key may be missing
ExpiresIns == {<<>>, <<20>>, <<80>>}
IdpErrors == {[status_code |-> 400, text |-> "invalid_grant"]}

IdpOk(n) ==
    {[status_code |-> 200, text |-> "",
      data |-> [access_token |-> "at" \o ToString(n),
                refresh_token |-> "rt" \o ToString(n), expires_in |-> e]] :
        e \in ExpiresIns}
    \cup
    {[status_code |-> 200, text |-> "",
      data |-> [access_token |-> None, refresh_token |-> "rt" \o ToString(n),
                expires_in |-> <<>>]],
     [status_code |-> 200, text |-> "",
      data |-> [access_token |-> "at" \o ToString(n), refresh_token |-> None,
                expires_in |-> <<>>]]}

\* a handler that sends its request to the accounting API a second time
SendApi_Twice(r, token) ==
    [r EXCEPT !.pc = "api", !.access_token = token,
              !.api_calls = r.api_calls + 2, !.now0 = 0]

\* lines 140-149 and 186-194: requests.get with the token and the tenant of
\* the Firm dict the handler looked up
SendApi(r, token) ==
    [r EXCEPT !.pc = "api", !.access_token = token,
              !.api_calls = r.api_calls + 1, !.now0 = 0]

\* lines 43-64, entered by thread t with its request in r (r.firm is the
\* handler's FIRMS.get): a cache hit goes on to the accounting API, anything
\* else posts the grant
EnterRefresh(t, r, payload) ==
    LET cached == CacheGet(r.firm_id)
        firm == FirmOf(r.firm_id)
    IN IF CacheFresh(cached, now)
       THEN /\ thr' = [thr EXCEPT ![t] = SendApi(r, cached.access_token)]
            /\ track' = Followed(track, r.firm_id)
            /\ UNCHANGED <<FIRMS, connects, ACCESS_CACHE, now, issued, out>>
       ELSE IF NotConnected(firm)
       THEN /\ out' = Reply(t, r.endpoint, payload, 500, InternalServerError,
                            "Firm not connected", NoUpstream, <<0, 0>>)
            /\ UNCHANGED <<FIRMS, connects, ACCESS_CACHE, now, issued, thr, track>>
       ELSE /\ thr' = [thr EXCEPT ![t] =
                         [r EXCEPT !.pc = "idp", !.now0 = now,
                                   !.grant = GrantToken(firm),
                                   !.idp_calls = r.idp_calls + 1]]
            /\ track' = Followed(track, r.firm_id)
            /\ UNCHANGED <<FIRMS, connects, ACCESS_CACHE, now, issued, out>>

\* the request of thread t, as the reply reports it
PayloadOf(r) ==
    [NoPayload EXCEPT !.firm_id = r.firm_id, !.query = r.query,
                      !.limit = [kind |-> "int", val |-> r.limit],
                      !.client_id = r.client_id]

Calls(r) == <<r.idp_calls, r.api_calls>>

\* lines 66-79, then the handler's requests.get
LeaveRefresh(t, resp) ==
    LET r == thr[t]
        data == resp.data
    IN IF resp.status_code # 200
       THEN /\ out' = Reply(t, r.endpoint, PayloadOf(r), 500, InternalServerError,
                            RefreshFailed(resp), From("idp", resp), Calls(r))
            /\ thr' = [thr EXCEPT ![t] = Idle]
            /\ UNCHANGED <<FIRMS, connects, ACCESS_CACHE, now, issued, track>>
       ELSE /\ connects + issued < MaxEvents
            /\ issued' = issued + 1
            /\ UNCHANGED <<connects, now>>
            /\ IF data.access_token = None
               THEN /\ out' = Reply(t, r.endpoint, PayloadOf(r), 500, InternalServerError,
                                    "KeyError: 'access_token'", From("idp", resp), Calls(r))
                    /\ thr' = [thr EXCEPT ![t] = Idle]
                    /\ UNCHANGED <<FIRMS, ACCESS_CACHE, track>>
               ELSE /\ ACCESS_CACHE' =
                         DictSet(ACCESS_CACHE, r.firm_id, CacheEntry(r.now0, data))
                    /\ IF data.refresh_token = None
                       THEN /\ out' = Reply(t, r.endpoint, PayloadOf(r), 500,
                                            InternalServerError, "KeyError: 'refresh_token'",
                                            From("idp", resp), Calls(r))
                            /\ thr' = [thr EXCEPT ![t] = Idle]
                            /\ UNCHANGED <<FIRMS, track>>
                       ELSE /\ FIRMS' = Rotate(FIRMS, r.firm_id, r.firm, data)
                            /\ track' = Learn(track, r.firm_id, data.refresh_token)
                            /\ thr' = [thr EXCEPT ![t] = SendApi(r, data.access_token)]
                            /\ UNCHANGED out

IdpResponse(t) ==
    /\ out = NoReply
    /\ thr[t].pc = "idp"
    /\ \E resp \in IdpErrors \cup IdpOk(issued + 1) : LeaveRefresh(t, resp)

\* requests.post or requests.get raises (timeout, connection error): nothing
\* catches it
NetworkError(t) ==
    /\ out = NoReply
    /\ Waiting(t)
    /\ out' = Reply(t, thr[t].endpoint, PayloadOf(thr[t]), 500, InternalServerError,
                    "requests.exceptions.RequestException", NoUpstream, Calls(thr[t]))
    /\ thr' = [thr EXCEPT ![t] = Idle]
    /\ UNCHANGED <<FIRMS, connects, ACCESS_CACHE, now, issued, track>>

----------------------------------------------------------------------------
(* clients_search *)

\* "f1 " is never connected: firm_id is not trimmed
SearchFirmIds == {None, "f1", "F1", "f1 "}
Acme == <<" ", "Acme", " ">>
Queries == {QNone, <<" ">>, Acme}
\* limit: absent, an int, or a str that holds no int ("abc")
NoLimit == [kind |-> "absent", val |-> 0]
Limits == {NoLimit, [kind |-> "int", val |-> 0], [kind |-> "badstr", val |-> 0]}

\* the searches callers make: every firm_id with a good query, every query
\* and every limit for "f1", and a bad limit on a request that is invalid too
SearchPayloads ==
    {[NoPayload EXCEPT !.firm_id = f, !.query = Acme] : f \in SearchFirmIds}
    \cup {[NoPayload EXCEPT !.firm_id = "f1", !.query = q] : q \in Queries}
    \cup {[NoPayload EXCEPT !.firm_id = "f1", !.query = Acme, !.limit = l] : l \in Limits}
    \cup {[NoPayload EXCEPT !.query = q, !.limit = [kind |-> "badstr", val |-> 0]] :
             q \in {QNone, Acme}}

\* line 123
ParseQuery(q) == Strip(SeqOr(q, <<>>), WHITESPACE)

\* line 124: payload.get("limit") or 5
LimitOr(l) ==
    IF l.kind = "absent" \/ (l.kind = "int" /\ l.val = 0)
    THEN [kind |-> "int", val |-> DEFAULT_LIMIT] ELSE l

\* line 124: int(...) raises ValueError on a str that holds no int
ParseLimit(l) ==
    LET v == LimitOr(l)
    IN [ok |-> v.kind # "badstr", val |-> v.val]

\* line 126
SearchInvalid(p) == Falsy(p.firm_id) \/ ParseQuery(p.query) = <<>>

\* line 162
EmDash == "<U+2014>"
LabelStrip == {" ", EmDash}
Label(name, email) == Strip(name \o <<" ", EmDash, " ">> \o email, LabelStrip)

\* lines 156-163
RECURSIVE Options(_)
Options(contacts) ==
    IF contacts = <<>> THEN <<>>
    ELSE LET c == Head(contacts)
             cid == Get(c, "ContactID")
             name == GetQ(c, "Name")
             email == SeqOr(GetQ(c, "EmailAddress"), <<>>)
         IN (IF ~Falsy(cid) /\ name # QNone /\ name # <<>>
             THEN <<[id |-> cid, label |-> Label(name, email)]>> ELSE <<>>)
            \o Options(Tail(contacts))

\* line 154: resp.json().get("Contacts", [])[:limit]
Truncate(json, limit) ==
    Slice(IF "Contacts" \in DOMAIN json THEN json.Contacts ELSE <<>>, limit)

\* lines 154-165
SearchOptions(json, limit) == Options(Truncate(json, limit))

\* what GET /Contacts may answer: an error, or the first contacts of a list
UpstreamContacts ==
    <<[ContactID |-> "c1", Name |-> <<"Acme", " ", "Co">>, EmailAddress |-> <<"a@acme.com">>],
      [ContactID |-> "c2", Name |-> <<"Bolt">>],
      [Name |-> <<"NoId">>, EmailAddress |-> <<"n@x.com">>]>>

ApiErrors == {[status_code |-> 404, text |-> "not found"]}

SearchAnswers ==
    {[status_code |-> 200, text |-> "",
      json |-> [Contacts |-> SubSeq(UpstreamContacts, 1, n)]] :
        n \in 0..(IF MaxContacts < Len(UpstreamContacts)
                  THEN MaxContacts ELSE Len(UpstreamContacts))}
    \cup ApiErrors

\* lines 120-149
clients_search(t, p) ==
    LET limit == ParseLimit(p.limit)
        r == [Idle EXCEPT !.endpoint = "search", !.firm_id = p.firm_id,
                          !.query = ParseQuery(p.query), !.limit = limit.val,
                          !.firm = FirmOf(p.firm_id).id,
                          !.tenant_id = FirmOf(p.firm_id).tenant_id]
    IN IF ~limit.ok
       THEN /\ Quiet
            /\ out' = Reply(t, "search", p, 500, InternalServerError,
                            "ValueError: invalid literal for int()", NoUpstream, <<0, 0>>)
            /\ UNCHANGED <<FIRMS, connects, ACCESS_CACHE, now, issued, thr, track>>
       ELSE IF SearchInvalid(p)
       THEN /\ Quiet
            /\ out' = Reply(t, "search", p, 400,
                            [ok |-> FALSE, error |-> "firm_id and query required"],
                            None, NoUpstream, <<0, 0>>)
            /\ UNCHANGED <<FIRMS, connects, ACCESS_CACHE, now, issued, thr, track>>
       ELSE IF NotConnected(FirmOf(p.firm_id))
       THEN /\ Quiet
            /\ out' = Reply(t, "search", p, 400,
                            [ok |-> FALSE, error |-> "firm not connected"],
                            None, NoUpstream, <<0, 0>>)
            /\ UNCHANGED <<FIRMS, connects, ACCESS_CACHE, now, issued, thr, track>>
       ELSE EnterRefresh(t, r, p)

Search(t) ==
    /\ out = NoReply
    /\ Free(t)
    /\ \E p \in SearchPayloads : clients_search(t, p)

\* lines 151-165
SearchReply(t, resp) ==
    LET r == thr[t]
    IN /\ out' = IF resp.status_code # 200
                 THEN Reply(t, "search", PayloadOf(r), resp.status_code,
                            [ok |-> FALSE, error |-> resp.text], None,
                            From("api", resp), Calls(r))
                 ELSE Reply(t, "search", PayloadOf(r), 200,
                            [ok |-> TRUE, options |-> SearchOptions(resp.json, r.limit)],
                            None, From("api", resp), Calls(r))
       /\ thr' = [thr EXCEPT ![t] = Idle]
       /\ UNCHANGED <<FIRMS, connects, ACCESS_CACHE, now, issued, track>>

SearchResponse(t) ==
    /\ out = NoReply
    /\ thr[t].pc = "api"
    /\ thr[t].endpoint = "search"
    /\ \E resp \in SearchAnswers : SearchReply(t, resp)

----------------------------------------------------------------------------
(* clients_resolve *)

ResolveClientIds == {None, "", "c1"}

ResolvePayloads ==
    {[NoPayload EXCEPT !.firm_id = f, !.client_id = "c1"] : f \in SearchFirmIds}
    \cup {[NoPayload EXCEPT !.firm_id = "f1", !.client_id = c] : c \in ResolveClientIds}
    \cup {NoPayload}

\* line 174
ResolveInvalid(p) == Falsy(p.firm_id) \/ Falsy(p.client_id)

EmptyDict == <<>>

\* (d.get(k) or [{}])[0]
FirstOf(d, k) ==
    IF k \in DOMAIN d /\ d[k] # <<>> THEN d[k][1] ELSE EmptyDict

\* lines 199-214
Flatten(json) ==
    LET c == FirstOf(json, "Contacts")
        address == FirstOf(c, "Addresses")
    IN [ok |-> TRUE,
        client_id |-> Get(c, "ContactID"),
        full_name |-> Get(c, "Name"),
        email |-> Get(c, "EmailAddress"),
        phone |-> Get(FirstOf(c, "Phones"), "PhoneNumber"),
        address_line1 |-> Get(address, "AddressLine1"),
        city |-> Get(address, "City"),
        state |-> Get(address, "Region"),
        postcode |-> Get(address, "PostalCode"),
        country |-> Get(address, "Country")]

\* what GET /Contacts/{id} may answer
ResolveContacts ==
    {[ContactID |-> "c1", Name |-> "Acme Co", EmailAddress |-> "a@acme.com",
      Phones |-> <<[PhoneNumber |-> "555"], [PhoneNumber |-> "777"]>>,
      Addresses |-> <<[AddressLine1 |-> "1 Main St", City |-> "Perth", Region |-> "WA",
                       PostalCode |-> "6000", Country |-> "AU"],
                      [AddressLine1 |-> "2 Side St", City |-> "Sydney", Region |-> "NSW",
                       PostalCode |-> "2000", Country |-> "AU"]>>],
     [ContactID |-> "c1", Name |-> "Acme Co"]}

ResolveAnswers ==
    {[status_code |-> 200, text |-> "", json |-> [Contacts |-> <<c>>]] :
        c \in ResolveContacts}
    \cup ApiErrors

\* lines 169-194
clients_resolve(t, p) ==
    LET r == [Idle EXCEPT !.endpoint = "resolve", !.firm_id = p.firm_id,
                          !.client_id = p.client_id, !.firm = FirmOf(p.firm_id).id,
                          !.tenant_id = FirmOf(p.firm_id).tenant_id]
    IN IF ResolveInvalid(p)
       THEN /\ Quiet
            /\ out' = Reply(t, "resolve", p, 400,
                            [ok |-> FALSE, error |-> "firm_id and client_id required"],
                            None, NoUpstream, <<0, 0>>)
            /\ UNCHANGED <<FIRMS, connects, ACCESS_CACHE, now, issued, thr, track>>
       ELSE IF NotConnected(FirmOf(p.firm_id))
       THEN /\ Quiet
            /\ out' = Reply(t, "resolve", p, 400,
                            [ok |-> FALSE, error |-> "firm not connected"],
                            None, NoUpstream, <<0, 0>>)
            /\ UNCHANGED <<FIRMS, connects, ACCESS_CACHE, now, issued, thr, track>>
       ELSE EnterRefresh(t, r, p)

Resolve(t) ==
    /\ out = NoReply
    /\ Free(t)
    /\ \E p \in ResolvePayloads : clients_resolve(t, p)

\* lines 196-214
ResolveReply(t, resp) ==
    LET r == thr[t]
    IN /\ out' = IF resp.status_code # 200
                 THEN Reply(t, "resolve", PayloadOf(r), resp.status_code,
                            [ok |-> FALSE, error |-> resp.text], None,
                            From("api", resp), Calls(r))
                 ELSE Reply(t, "resolve", PayloadOf(r), 200, Flatten(resp.json),
                            None, From("api", resp), Calls(r))
       /\ thr' = [thr EXCEPT ![t] = Idle]
       /\ UNCHANGED <<FIRMS, connects, ACCESS_CACHE, now, issued, track>>

ResolveResponse(t) ==
    /\ out = NoReply
    /\ thr[t].pc = "api"
    /\ thr[t].endpoint = "resolve"
    /\ \E resp \in ResolveAnswers : ResolveReply(t, resp)

\* lines 85-87
Health ==
    /\ out = NoReply
    /\ Quiet
    /\ out' = Reply(0, "health", NoPayload, 200, "API OK", None, NoUpstream, <<0, 0>>)
    /\ UNCHANGED <<FIRMS, connects, ACCESS_CACHE, now, issued, thr, track>>

----------------------------------------------------------------------------
(* time *)

\* the clock advances; the refresher's requests.post does not outlast its timeout
Tick ==
    \E d \in TickSteps :
        /\ out = NoReply
        /\ now + d <= MaxTime
        /\ \A t \in Threads : thr[t].pc = "idp" => now + d - thr[t].now0 <= TIMEOUT
        /\ now' = now + d
        /\ UNCHANGED <<FIRMS, connects, ACCESS_CACHE, issued, thr, out, track>>

\* the reply leaves the process
Deliver ==
    /\ out # NoReply
    /\ out' = NoReply
    /\ UNCHANGED <<FIRMS, connects, ACCESS_CACHE, now, issued, thr, track>>

Next ==
    \/ Connect
    \/ Health
    \/ \E t \in Threads : Search(t)
    \/ \E t \in Threads : Resolve(t)
    \/ \E t \in Threads : IdpResponse(t)
    \/ \E t \in Threads : SearchResponse(t)
    \/ \E t \in Threads : ResolveResponse(t)
    \/ \E t \in Threads : NetworkError(t)
    \/ Tick
    \/ Deliver

Spec == Init /\ [][Next]_vars

----------------------------------------------------------------------------
(* The search reply as a function of limit and the upstream list: a request  *)
(* of a connected firm whose token is cached, answered 200 by the accounting *)
(* API with any list of up to MaxList contacts.                              *)

MaxList == 6         \* contacts in one upstream answer of ShapeSpec

\* a contact has all three keys, or lacks one, or has a Name that begins with
\* a space
ContactKinds == {"full", "noemail", "noid", "noname", "padded"}

\* the i-th contact of an upstream list
ContactOf(kind, i) ==
    CASE kind = "full" ->
           [ContactID |-> "c" \o ToString(i), Name |-> <<"N", ToString(i)>>,
            EmailAddress |-> <<"e", ToString(i)>>]
      [] kind = "noemail" ->
           [ContactID |-> "c" \o ToString(i), Name |-> <<"N", ToString(i)>>]
      [] kind = "noname" ->
           [ContactID |-> "c" \o ToString(i), EmailAddress |-> <<"e", ToString(i)>>]
      [] kind = "padded" ->
           [ContactID |-> "c" \o ToString(i), Name |-> <<" ", "N", ToString(i)>>,
            EmailAddress |-> <<"e", ToString(i)>>]
      [] OTHER ->
           [Name |-> <<"N", ToString(i)>>, EmailAddress |-> <<"e", ToString(i)>>]

ContactLists(max) ==
    UNION {{[i \in 1..n |-> ContactOf(ks[i], i)] : ks \in [1..n -> ContactKinds]} :
              n \in 0..max}

ShapeLimits == {NoLimit} \cup {[kind |-> "int", val |-> n] : n \in 0..MaxList}

\* lines 124 and 154-165
Shape ==
    /\ out = NoReply
    /\ \E l \in ShapeLimits, contacts \in ContactLists(MaxList) :
          out' = [endpoint |-> "search", limit |-> l, contacts |-> contacts,
                  status |-> 200,
                  body |-> [ok |-> TRUE,
                            options |-> SearchOptions([Contacts |-> contacts],
                                                      ParseLimit(l).val)]]
    /\ UNCHANGED <<FIRMS, connects, ACCESS_CACHE, now, issued, thr, track>>

\* what GET /Contacts/{id} may hold for a contact: each nested list absent,
\* empty, or with a first element that has all its keys or lacks them
PhoneLists ==
    {<<>>, <<[PhoneNumber |-> "555"], [PhoneNumber |-> "777"]>>,
     <<EmptyDict, [PhoneNumber |-> "777"]>>}

AddressLists ==
    {<<>>,
     <<[AddressLine1 |-> "1 Main St", City |-> "Perth", Region |-> "WA",
        PostalCode |-> "6000", Country |-> "AU"],
       [AddressLine1 |-> "2 Side St", City |-> "Sydney", Region |-> "NSW",
        PostalCode |-> "2000", Country |-> "AU"]>>,
     <<[City |-> "Perth"], [AddressLine1 |-> "2 Side St", Region |-> "NSW"]>>}

\* a dict with the key k when v is given (a set of at most one value)
Maybe(k, v) == IF v = {} THEN EmptyDict ELSE k :> (CHOOSE x \in v : TRUE)

ShapeContacts ==
    {[ContactID |-> "c1", Name |-> "Acme Co"]
       @@ Maybe("EmailAddress", e) @@ Maybe("Phones", ph) @@ Maybe("Addresses", ad) :
         e \in {{}, {"a@acme.com"}},
         ph \in {{}} \cup {{x} : x \in PhoneLists},
         ad \in {{}} \cup {{x} : x \in AddressLists}}

ShapeJsons ==
    {EmptyDict, [Contacts |-> <<>>]} \cup {[Contacts |-> <<c>>] : c \in ShapeContacts}

\* lines 199-214
ShapeResolve ==
    /\ out = NoReply
    /\ \E json \in ShapeJsons :
          out' = [endpoint |-> "resolve", json |-> json, status |-> 200,
                  body |-> Flatten(json)]
    /\ UNCHANGED <<FIRMS, connects, ACCESS_CACHE, now, issued, thr, track>>

ShapeNext == Shape \/ ShapeResolve \/ Deliver

ShapeSpec == Init /\ [][ShapeNext]_vars

----------------------------------------------------------------------------
(* Properties *)

\* a request of thread t enters the refresher in this step
Enters(t) == thr[t].pc = "idle" /\ thr'[t].pc # "idle"

\* the refresher of thread t returns a token in this step
Returns(t) == thr[t].pc # "api" /\ thr'[t].pc = "api"

\* some earlier connect for exactly this firm_id succeeded
ConnectedEver(firm_id) == firm_id \in DOMAIN track /\ track[firm_id].known # None

\* a reply of search or resolve is on its way
Answered == out # NoReply /\ out.endpoint \in {"search", "resolve"}

\* C1: when the refresher is entered while ACCESS_CACHE holds an entry for the
\* firm with expires_at > now + 60, it returns that entry's access_token, sends
\* nothing to the identity provider and leaves FIRMS and ACCESS_CACHE as they
\* are; when the entry is missing or expires_at <= now + 60 it posts a refresh
\* grant instead.
C1_CacheHit ==
    [][\A t \in Threads :
          Enters(t) =>
             LET cached == CacheGet(thr'[t].firm_id)
             IN IF cached # NoEntry /\ cached.expires_at > now + 60
                THEN /\ thr'[t].pc = "api"
                     /\ thr'[t].access_token = cached.access_token
                     /\ thr'[t].idp_calls = 0
                     /\ UNCHANGED <<FIRMS, ACCESS_CACHE>>
                ELSE /\ thr'[t].pc = "idp"
                     /\ thr'[t].idp_calls = 1]_vars

\* a request was served from the cache: it waits for the accounting API and
\* never called the identity provider
C1_Witness ==
    \E t \in Threads :
        /\ thr[t].pc = "api"
        /\ thr[t].idp_calls = 0
        /\ thr[t].access_token = ACCESS_CACHE[thr[t].firm_id].access_token

\* C2: when a refresh for firm f succeeds, FIRMS[f].refresh_token is the
\* refresh_token of that response; a refresh grant for f carries the token the
\* process took last for f, from the last successful refresh or, after a
\* connect, from that connect.
C2_Rotation ==
    [][\A t \in Threads :
          /\ (thr[t].pc = "idp" /\ Returns(t)) =>
                 FIRMS'[thr[t].firm_id].refresh_token = track'[thr[t].firm_id].known
          /\ (Enters(t) /\ thr'[t].pc = "idp") =>
                 thr'[t].grant = track[thr'[t].firm_id].known]_vars

\* C3: in every state each connected firm's stored refresh_token is the latest
\* of the token of its last connect and the tokens of the refresh responses
\* taken for it since; and no firm_id has more than one CachedToken.
C3_LatestToken ==
    /\ \A f \in DOMAIN FIRMS :
          FIRMS[f] # NoFirm => FIRMS[f].refresh_token = track[f].known
    /\ \A f \in DOMAIN ACCESS_CACHE : Cardinality({ACCESS_CACHE[f]} \ {NoEntry}) <= 1

\* C4: a successful connect for f leaves ACCESS_CACHE without an entry for f,
\* and the next search or resolve for f that reaches the refresher posts a
\* refresh grant carrying the refresh_token of that connect.
C4_ConnectForcesRefresh ==
    [][/\ (out'# NoReply /\ out'.endpoint = "connect" /\ out'.status = 200) =>
              ACCESS_CACHE'[out'.payload.firm_id] = NoEntry
       /\ \A t \in Threads :
             (Enters(t) /\ track[thr'[t].firm_id].pending # None) =>
                 /\ thr'[t].pc = "idp"
                 /\ thr'[t].grant = track[thr'[t].firm_id].pending]_vars

\* C5: when the refresher returns a token, the expires_at of the firm's cache
\* entry (the one it found, or the one it has just computed) is later than the
\* time of return.
C5_ValidAtReturn ==
    [][\A t \in Threads :
          Returns(t) => ACCESS_CACHE'[thr'[t].firm_id].expires_at > now']_vars

\* C6: a non-200 answer of the identity provider ends the request with
\* "Token refresh failed: " and the provider's body, after one request to the
\* provider and none to the accounting API, and neither posting the grant nor
\* taking the answer changes FIRMS or ACCESS_CACHE.
C6_RefreshFailed ==
    [][\A t \in Threads :
          /\ (Enters(t) /\ thr'[t].pc = "idp") => UNCHANGED <<FIRMS, ACCESS_CACHE>>
          /\ (/\ thr[t].pc = "idp"
              /\ out' # NoReply
              /\ out'.t = t
              /\ out'.upstream.from = "idp"
              /\ out'.upstream.status_code # 200) =>
                 /\ out'.exc = "Token refresh failed: " \o out'.upstream.text
                 /\ out'.idp_calls = 1
                 /\ out'.api_calls = 0
                 /\ thr'[t] = Idle
                 /\ UNCHANGED <<FIRMS, ACCESS_CACHE>>]_vars

\* the identity provider refused a grant and the request has failed
C6_Witness ==
    /\ Answered
    /\ out.upstream.from = "idp"
    /\ out.upstream.status_code = 400
    /\ out.exc = "Token refresh failed: invalid_grant"
    /\ out.idp_calls = 1

\* C7: a search or resolve that got a non-200 answer from the identity
\* provider or from the accounting API replies with that status code and with
\* that body as its error message.
C7_UpstreamFailure ==
    (Answered /\ out.upstream.from # None /\ out.upstream.status_code # 200) =>
        /\ out.status = out.upstream.status_code
        /\ out.body = [ok |-> FALSE, error |-> out.upstream.text]

\* the payload reaches the firm lookup (lines 132 and 180)
ReachesLookup(endpoint, p) ==
    /\ ~Falsy(p.firm_id)
    /\ endpoint = "search" => ParseQuery(p.query) # <<>> /\ p.limit.kind # "badstr"
    /\ endpoint = "resolve" => ~Falsy(p.client_id)

\* a search or resolve for a firm_id no connect has stored: not one request
\* went upstream and FIRMS and ACCESS_CACHE are as the request found them
Untouched ==
    /\ out.status # 200
    /\ out.idp_calls = 0
    /\ out.api_calls = 0
    /\ out.pre = Stores

NotConnectedReply ==
    /\ out.status = 400
    /\ out.body = [ok |-> FALSE, error |-> "firm not connected"]

MissesRequired(endpoint, p) ==
    CASE endpoint = "connect" ->
           p.firm_id \in Missing \/ p.tenant_id \in Missing \/ p.refresh_token \in Missing
      [] endpoint = "search" ->
           p.firm_id \in Missing \/ Strip(SeqOr(p.query, <<>>), WHITESPACE) = <<>>
      [] endpoint = "resolve" ->
           p.firm_id \in Missing \/ p.client_id \in Missing
      [] OTHER -> FALSE

\* C9: a connect, search or resolve whose payload misses a required key (for
\* search: a query empty after trimming) returns 400 with an error field,
\* sends nothing upstream and changes neither FIRMS nor ACCESS_CACHE.
C9_Validation ==
    (out # NoReply /\ MissesRequired(out.endpoint, out.payload)) =>
        /\ out.status = 400
        /\ "error" \in DOMAIN out.body
        /\ out.idp_calls = 0
        /\ out.api_calls = 0
        /\ out.pre = Stores

\* the position of a contact in the upstream list
PositionOf(contacts, id) ==
    CHOOSE i \in 1..Len(contacts) :
        "ContactID" \in DOMAIN contacts[i] /\ contacts[i].ContactID = id

\* C10: a search with limit 0 returns no options; with limit N (5 when limit
\* is absent) it returns at most N options, each the id of an upstream contact,
\* in upstream order.
C10_Limit ==
    (out # NoReply /\ out.endpoint = "search") =>
        LET options == out.body.options
            N == IF out.limit = NoLimit THEN 5 ELSE out.limit.val
        IN /\ out.limit = [kind |-> "int", val |-> 0] => options = <<>>
           /\ Len(options) <= N
           /\ \A i \in 1..Len(options) :
                 \E j \in 1..Len(out.contacts) :
                     /\ "ContactID" \in DOMAIN out.contacts[j]
                     /\ out.contacts[j].ContactID = options[i].id
           /\ \A i, j \in 1..Len(options) :
                 i < j => PositionOf(out.contacts, options[i].id)
                            < PositionOf(out.contacts, options[j].id)

\* the option the contact c stands for: its ContactID, and its Name followed,
\* when it has a non-empty EmailAddress, by the separator and the EmailAddress
OptionOf(c) ==
    [id |-> c.ContactID,
     label |-> IF "EmailAddress" \in DOMAIN c /\ c.EmailAddress # <<>>
               THEN c.Name \o <<" ", EmDash, " ">> \o c.EmailAddress
               ELSE c.Name]

\* one option for each of the contacts that has a ContactID and a Name
RECURSIVE OptionsOf(_)
OptionsOf(contacts) ==
    IF contacts = <<>> THEN <<>>
    ELSE (IF {"ContactID", "Name"} \subseteq DOMAIN Head(contacts)
          THEN <<OptionOf(Head(contacts))>> ELSE <<>>)
         \o OptionsOf(Tail(contacts))

\* C11 (of searches whose limit is not 0): a successful search returns, in
\* upstream order, one option for each of the first `limit` (5 when absent)
\* upstream contacts that has a ContactID and a Name and none for the others;
\* the option's id is the ContactID and its label is name, separator, email,
\* or the name alone when the email is empty or absent.
C11_Options ==
    (/\ out # NoReply
     /\ out.endpoint = "search"
     /\ out.limit # [kind |-> "int", val |-> 0]) =>
        LET N == IF out.limit = NoLimit THEN 5 ELSE out.limit.val
            first == SubSeq(out.contacts, 1,
                            IF N < Len(out.contacts) THEN N ELSE Len(out.contacts))
        IN out.body.options = OptionsOf(first)

\* d[k], or the empty string when d has no key k
OrEmpty(d, k) == IF k \in DOMAIN d THEN d[k] ELSE ""

\* the first element of the list d[k], or a dict without keys when d has no
\* key k or the list is empty
FirstOrNone(d, k) == IF k \in DOMAIN d /\ d[k] # <<>> THEN d[k][1] ELSE EmptyDict

\* C12: a successful resolve returns each flattened field from the contact,
\* its first phone and its first address, and the empty string for every
\* field whose source is absent (no Phones or Addresses list, an empty one, or
\* a key missing in the first element).
C12_Flatten ==
    (out # NoReply /\ out.endpoint = "resolve") =>
        LET c == FirstOrNone(out.json, "Contacts")
            phone == FirstOrNone(c, "Phones")
            address == FirstOrNone(c, "Addresses")
        IN /\ out.status = 200
           /\ out.body.phone = OrEmpty(phone, "PhoneNumber")
           /\ out.body.address_line1 = OrEmpty(address, "AddressLine1")
           /\ out.body.city = OrEmpty(address, "City")
           /\ out.body.state = OrEmpty(address, "Region")
           /\ out.body.postcode = OrEmpty(address, "PostalCode")
           /\ out.body.country = OrEmpty(address, "Country")

\* C13: refreshes for one firm are not excluded from one another.  A request
\* that needs a refresh posts the stored refresh_token whatever else is in
\* flight, and a response taken for the Firm dict that FIRMS holds stores its
\* refresh_token (that of the n-th grant honoured is "rt" n) over whatever is
\* stored, the token of another response included: the last write wins.
C13_LastWriteWins ==
    [][\A t \in Threads :
          /\ (Enters(t) /\ thr'[t].pc = "idp") =>
                 thr'[t].grant = FIRMS[thr'[t].firm_id].refresh_token
          /\ (/\ thr[t].pc = "idp"
              /\ Returns(t)
              /\ thr[t].firm = FIRMS[thr[t].firm_id].id) =>
                 /\ FIRMS'[thr[t].firm_id].refresh_token = "rt" \o ToString(issued')
                 /\ FIRMS'[thr[t].firm_id].refresh_token
                       # FIRMS[thr[t].firm_id].refresh_token]_vars

\* two requests for one firm have posted the same refresh_token, both
\* responses have rotated the token of the Firm dict FIRMS holds, and what is
\* stored is the token of the response taken last
C13_Witness ==
    \E t, u \in Threads :
        /\ t # u
        /\ thr[t].pc = "api" /\ thr[u].pc = "api"
        /\ thr[t].firm_id = thr[u].firm_id
        /\ thr[t].idp_calls = 1 /\ thr[u].idp_calls = 1
        /\ thr[t].grant = thr[u].grant
        /\ thr[t].firm = FIRMS[thr[t].firm_id].id
        /\ thr[u].firm = FIRMS[thr[t].firm_id].id
        /\ issued >= 2
        /\ FIRMS[thr[t].firm_id].refresh_token = "rt" \o ToString(issued)

\* C14: one search or resolve sends at most one request to the identity
\* provider and at most one to the accounting API.  The request to the
\* accounting API is sent when the refresher returns a token, the cached one
\* or the one of the response (that of the n-th grant honoured is "at" n), and
\* carries that token with the tenant_id of the Firm dict the handler looked
\* up; a request whose refresh failed has sent none.
C14_CallOrder ==
    [][/\ \A t \in Threads :
             /\ thr'[t].idp_calls <= 1
             /\ thr'[t].api_calls = (IF thr'[t].pc = "api" THEN 1 ELSE 0)
             /\ Enters(t) => thr'[t].tenant_id = FIRMS[thr'[t].firm_id].tenant_id
             /\ (thr[t].pc = "idp" /\ thr'[t].pc # "idle") =>
                    thr'[t].tenant_id = thr[t].tenant_id
             /\ (thr[t].pc = "idle" /\ Returns(t)) =>
                    /\ thr'[t].idp_calls = 0
                    /\ thr'[t].access_token = ACCESS_CACHE[thr'[t].firm_id].access_token
             /\ (thr[t].pc = "idp" /\ Returns(t)) =>
                    /\ thr'[t].idp_calls = 1
                    /\ thr'[t].access_token = "at" \o ToString(issued')
       /\ (out' # NoReply /\ out'.endpoint \in {"search", "resolve"}) =>
             /\ out'.idp_calls <= 1
             /\ out'.api_calls <= 1
             /\ out'.upstream.from = "idp" => out'.api_calls = 0
             /\ out'.upstream.from = "api" => out'.api_calls = 1]_vars

\* a search has been answered by the accounting API after one refresh
C14_Witness ==
    /\ Answered
    /\ out.status = 200
    /\ out.upstream.from = "api"
    /\ out.idp_calls = 1
    /\ out.api_calls = 1

\* C15: when a request leaves the refresher after it has posted its grant,
\* either the firm's ACCESS_CACHE entry and its stored refresh_token both hold
\* the values of that response (of the n-th grant honoured: "at" n, "rt" n), or
\* neither has changed.
C15_AllOrNothing ==
    [][\A t \in Threads :
          (thr[t].pc = "idp" /\ thr'[t].pc # "idp") =>
              LET f == thr[t].firm_id
              IN \/ /\ ACCESS_CACHE'[f] = ACCESS_CACHE[f]
                    /\ FIRMS'[f] = FIRMS[f]
                 \/ /\ ACCESS_CACHE'[f].access_token = "at" \o ToString(issued')
                    /\ FIRMS'[f].refresh_token = "rt" \o ToString(issued')]_vars

\* C16: when a connect for a firm completes while a request for it is in the
\* refresher, the response of that refresh is not written to a Firm dict that
\* FIRMS no longer holds, and once no request is in flight ACCESS_CACHE holds
\* no token for the firm that was obtained with the refresh_token from before
\* the connect (where no request has entered the refresher since the connect
\* and a rotation has been taken since, the entry comes from a grant posted
\* before it).
C16_ConnectDuringRefresh ==
    [][/\ \A t \in Threads :
             (thr[t].pc = "idp" /\ Returns(t)) =>
                 thr[t].firm = FIRMS[thr[t].firm_id].id
       /\ \A f \in FirmIds :
             (/\ \A t \in Threads : thr'[t].pc = "idle"
              /\ track'[f].pending # None
              /\ track'[f].known # track'[f].pending) =>
                 ACCESS_CACHE'[f] = NoEntry]_vars

\* FIRMS has the key firm_id (a Firm dict made by a connect)
Present(firm_id) == firm_id \in DOMAIN FIRMS /\ FIRMS[firm_id].id # 0

\* C17: in every state each firm_id with an ACCESS_CACHE entry is a key of
\* FIRMS, and a request to which the refresher has returned a token is for a
\* firm_id that is a key of FIRMS.
C17_CacheWithinFirms ==
    /\ \A f \in DOMAIN ACCESS_CACHE : ACCESS_CACHE[f] # NoEntry => Present(f)
    /\ \A t \in Threads : thr[t].pc = "api" => Present(thr[t].firm_id)

\* firm "f1" has a cached token while "F1" was never connected and has none
C17_Witness ==
    /\ ACCESS_CACHE["f1"] # NoEntry
    /\ Present("f1")
    /\ ~Present("F1")
    /\ ACCESS_CACHE["F1"] = NoEntry

\* C18: a step changes the Firm dict or the cache entry of a firm g only when
\* it is a connect for g or takes the answer to a refresh grant of a request
\* for g; and a request for f posts f's stored refresh_token, keeps f's
\* tenant_id, and goes on with f's cached access token or with the token its
\* own grant returned, which is then f's cache entry.
C18_Isolation ==
    [][/\ \A g \in FirmIds :
             (FIRMS'[g] # FIRMS[g] \/ ACCESS_CACHE'[g] # ACCESS_CACHE[g]) =>
                 \/ /\ out' # NoReply
                    /\ out'.endpoint = "connect"
                    /\ out'.payload.firm_id = g
                 \/ \E t \in Threads :
                       /\ thr[t].pc = "idp"
                       /\ thr[t].firm_id = g
                       /\ thr'[t] # thr[t]
       /\ \A t \in Threads :
             /\ Enters(t) =>
                    /\ thr'[t].tenant_id = FIRMS[thr'[t].firm_id].tenant_id
                    /\ thr'[t].pc = "idp" =>
                           thr'[t].grant = FIRMS[thr'[t].firm_id].refresh_token
                    /\ thr'[t].pc = "api" =>
                           thr'[t].access_token
                             = ACCESS_CACHE[thr'[t].firm_id].access_token
             /\ (thr[t].pc = "idp" /\ Returns(t)) =>
                    /\ thr'[t].firm_id = thr[t].firm_id
                    /\ thr'[t].tenant_id = thr[t].tenant_id
                    /\ thr'[t].access_token
                         = ACCESS_CACHE'[thr[t].firm_id].access_token]_vars

\* both firms are connected, "f1" has refreshed and holds a cached token, and
\* "F1" still has the refresh_token of its connect and no cached token
C18_Witness ==
    /\ Present("f1") /\ Present("F1")
    /\ ACCESS_CACHE["f1"] # NoEntry
    /\ FIRMS["f1"].refresh_token \notin {"r1", "r2"}
    /\ ACCESS_CACHE["F1"] = NoEntry
    /\ FIRMS["F1"] = [tenant_id |-> "t3", refresh_token |-> "r3", id |-> FIRMS["F1"].id]

====
